---- MODULE Spec2Model ----
(***************************************************************************)
(* Model of kivy.garden.formmanager (src/formmanager.py): the FormManager  *)
(* singleton, its registry of Forms, the set of active Forms and the       *)
(* per-Form action queues.                                                 *)
(*                                                                         *)
(* Python facts the model keeps:                                           *)
(*  - __forms, __active_forms, __processes, __queue and __manager are      *)
(*    CLASS attributes: every FormManager object, killed or not, reads and *)
(*    mutates the same collections;                                        *)
(*  - __killed, __running, __port and server are per-object attributes     *)
(*    (assigned through self);                                             *)
(*  - FormManager() runs __new__ and then __init__ on whatever __new__     *)
(*    returned, also when that is the already existing singleton;          *)
(*  - "form in self.__forms" compares Form objects by identity (Form       *)
(*    defines no __eq__), while the forms property is keyed by Form.name.  *)
(***************************************************************************)
EXTENDS Integers, Sequences, FiniteSets, TLC

----------------------------------------------------------------------------
(* Bounds of the model *)

\* number of FormManager objects ever constructed
MaxInst == 2
\* number of request_action appends recorded for the live queue entries
MaxEnq == 2
\* number of serve_forever threads started on one TCPServer
MaxThreads == 2
\* number of loopback ports the OS can hand out
NumPorts == 1
\* number of child processes launched
MaxWorkers == 1
\* number of _ask events one child has scheduled
MaxTimers == 2
\* number of times run_form is called again for a Form that has a child
MaxRelaunch == 1

----------------------------------------------------------------------------
(* Inputs *)

\* Form objects the caller holds: two distinct objects made from files with
\* the same base name (/a/form1.py and /b/form1.py)
Descs == {"d1", "d2"}

\* an argument of add_form that is not a Form
NonForm == "object"

\* Form.name: base name of the file without its extension; "d3" is made
\* from /a/form2.py
name(d) == IF d = "d3" THEN "form2" ELSE "form1"

Names == {name(d) : d \in Descs}

\* [action, values] pairs a caller passes to request_action
Actions == {<<"print", "hello">>, <<"stop", "bye">>}

Ports == {5000 + k : k \in 1..NumPorts}

\* the value None of an object-valued attribute
None == 0

\* self.server = None
NoServer == [made |-> FALSE, addr |-> 0, closed |-> FALSE, threads |-> 0]

\* the empty dict
EmptyDict == << >>

\* how a call ends: "None" or "True" when it returns, the message when
\* pop_queue returns one, or the exception it raises
OnlyFormInstances == "FormManagerException: FormManager accepts only Form instances."
AlreadyExists == "FormManagerException: This instance of a Form already exists in the FormManager."
NotAvailable == "FormManagerException: The instance of a Form isn't available in the manager!"
AlreadyActive == "FormManagerException: The Form is already registered and active!"
NonExistingForm == "FormManagerException: Can't request an action for a non-existing Form!"
CouldntPop == "Couldn't pop from queue, no Form present"

Raises == {OnlyFormInstances, AlreadyExists, NotAvailable, AlreadyActive,
           NonExistingForm, "IndexError"}

----------------------------------------------------------------------------
(* State *)

VARIABLES
    manager,        \* FormManager.__manager: the singleton slot (None or object id)
    insts,          \* the constructed FormManager objects, by id 1..Len(insts)
    forms,          \* FormManager.__forms: list of Form objects
    active_forms,   \* FormManager.__active_forms: list of names
    processes,      \* FormManager.__processes: name -> Thread running the child
    queue,          \* FormManager.__queue: name -> list of [action, values]
    enq,            \* history: everything appended to each live queue entry
    npop,           \* history: number of successful pops of each live queue entry
    workers         \* the FormApp child processes launched so far, in launch order

\* the state of the FormManager class and its objects
state == <<manager, insts, forms, active_forms, processes, queue, enq, npop>>

vars == <<state, workers>>

collections == <<forms, active_forms, processes, queue, enq, npop>>

----------------------------------------------------------------------------
(* Helpers *)

Range(s) == {s[k] : k \in 1..Len(s)}

\* list.remove(x): drops the first occurrence of x
ListRemove(s, x) ==
    LET k == CHOOSE j \in 1..Len(s) : s[j] = x /\ \A m \in 1..(j - 1) : s[m] # x
    IN  SubSeq(s, 1, k - 1) \o SubSeq(s, k + 1, Len(s))

\* del d[k]
DictDel(d, k) == [x \in DOMAIN d \ {k} |-> d[x]]

\* d[k] = v
DictSet(d, k, v) == [x \in DOMAIN d \cup {k} |-> IF x = k THEN v ELSE d[x]]

\* mutant: a forms property that reports every Form as inactive
FormsView_inactive == [n \in {name(f) : f \in Range(forms)} |-> FALSE]

\* the forms property: one key per name of an added Form, with its active flag
FormsView == [n \in {name(f) : f \in Range(forms)} |-> n \in Range(active_forms)]

Insts == 1..Len(insts)

\* a call that returns early or raises: nothing is assigned
NoEffect == UNCHANGED state

----------------------------------------------------------------------------
(* Initial state: the module is imported, no FormManager constructed *)

Init ==
    /\ manager = None
    /\ insts = << >>
    /\ forms = << >>
    /\ active_forms = << >>
    /\ processes = EmptyDict
    /\ queue = EmptyDict
    /\ enq = EmptyDict
    /\ npop = EmptyDict
    /\ workers = << >>

----------------------------------------------------------------------------
(* Construction: FormManager() = __new__ followed by __init__ *)

\* mutant: __new__ without the singleton test
New_never_reuses == FALSE

\* __new__: the existing singleton, or a new object after emptying the
\* class-level collections
New_reuses == manager # None

\* the object FormManager() returns
constructed == IF New_reuses THEN manager ELSE Len(insts) + 1

\* __init__(self, port=0): runs on the object __new__ returned; __new__
\* takes no argument besides cls, so port is always the default 0
InitObject(o) == [o EXCEPT !.port = 0, !.server = NoServer]

construct ==
    IF New_reuses
    THEN /\ insts' = [insts EXCEPT ![manager] = InitObject(insts[manager])]
         /\ manager' = constructed
         /\ UNCHANGED collections
    ELSE /\ Len(insts) < MaxInst
         /\ insts' = Append(insts, InitObject(
                        [killed |-> FALSE, running |-> FALSE,
                         port |-> 0, server |-> NoServer]))
         /\ manager' = constructed
         /\ forms' = << >>
         /\ active_forms' = << >>
         /\ processes' = EmptyDict
         /\ queue' = EmptyDict
         /\ enq' = EmptyDict
         /\ npop' = EmptyDict

----------------------------------------------------------------------------
(* Server life cycle *)

\* __create_server: TCPServer(('127.0.0.1', self.__port)); port 0 asks the
\* OS for a free port, which run() draws from Ports. A TCPServer that
\* __init__ detached from self.server is not tracked: the OS is taken to be
\* free to hand out any port of the pool
create_server(p) == [made |-> TRUE, addr |-> p, closed |-> FALSE, threads |-> 0]

\* Thread(target=self.server.serve_forever).start(): on a closed socket
\* serve_forever raises ValueError and the thread ends
start_thread(srv) ==
    IF srv.closed THEN srv ELSE [srv EXCEPT !.threads = @ + 1]

\* server.shutdown(); server.server_close()
shutdown_close(srv) ==
    IF srv.made THEN [srv EXCEPT !.closed = TRUE, !.threads = 0] ELSE srv

\* the listener of object i accepts and answers requests: its socket is
\* open and a thread is in serve_forever
Serving(i) ==
    /\ insts[i].server.made
    /\ ~insts[i].server.closed
    /\ insts[i].server.threads > 0

\* mutant: a stop() that also forgets the port
stopped_port_reset(o) ==
    [o EXCEPT !.server = shutdown_close(o.server), !.running = FALSE, !.port = 0]

\* mutant: a stop() that forgets the port of a server that is not running
stopped_forgets(o) ==
    IF o.running
    THEN [o EXCEPT !.server = shutdown_close(o.server), !.running = FALSE]
    ELSE [o EXCEPT !.port = 0]

\* what stop() leaves of the object
stopped(o) == [o EXCEPT !.server = shutdown_close(o.server), !.running = FALSE]

\* what run() leaves of the object, srv being self.server
ran(o, srv) ==
    [o EXCEPT !.server = start_thread(srv), !.port = srv.addr, !.running = TRUE]

run(i) ==
    IF insts[i].killed
    THEN NoEffect
    ELSE \E p \in Ports \cup {insts[i].server.addr} :
           /\ IF insts[i].server.made
              THEN p = insts[i].server.addr
              ELSE IF insts[i].port # 0 THEN p = insts[i].port
                   ELSE p \in Ports
           /\ insts[i].server.threads < MaxThreads
           /\ LET srv == IF insts[i].server.made THEN insts[i].server
                         ELSE create_server(p)
              IN  insts' = [insts EXCEPT ![i] = ran(@, srv)]
           /\ UNCHANGED <<manager, collections>>

stop(i) ==
    IF insts[i].killed
    THEN NoEffect
    ELSE /\ insts' = [insts EXCEPT ![i] = stopped(@)]
         /\ UNCHANGED <<manager, collections>>

kill(i) ==
    IF insts[i].killed
    THEN NoEffect
    ELSE /\ insts' = [insts EXCEPT ![i] = [stopped(@) EXCEPT !.killed = TRUE]]
         /\ manager' = None
         /\ UNCHANGED collections

----------------------------------------------------------------------------
(* Registry of Forms *)

\* "form in self.__forms": Form objects compare by identity
form_in_forms(x) == x \in Range(forms)

\* how add_form(x) on object i ends
add_form_result(i, x) ==
    IF insts[i].killed THEN "None"
    ELSE IF x = NonForm THEN OnlyFormInstances
    ELSE IF form_in_forms(x) THEN AlreadyExists
    ELSE "None"

add_form(i, x) ==
    IF insts[i].killed \/ add_form_result(i, x) \in Raises
    THEN NoEffect
    ELSE /\ forms' = Append(forms, x)
         /\ UNCHANGED <<manager, insts, active_forms, processes, queue,
                        enq, npop>>

\* the collections after remove_form has removed a Form that is in __forms
forms_removed(d) == ListRemove(forms, d)

queue_removed(q, d) == IF name(d) \in DOMAIN q THEN DictDel(q, name(d)) ELSE q

active_removed(d) == active_forms

remove_form(i, d) ==
    IF insts[i].killed \/ ~form_in_forms(d)
    THEN NoEffect
    ELSE /\ queue' = queue_removed(queue, d)
         /\ enq' = queue_removed(enq, d)
         /\ npop' = queue_removed(npop, d)
         /\ forms' = forms_removed(d)
         /\ active_forms' = active_removed(d)
         /\ UNCHANGED <<manager, insts, processes>>

\* run_form: Thread(target=call, args=([python, form.path, "port=<port>"],))
run_form(i, d) ==
    IF insts[i].killed
    THEN NoEffect
    ELSE /\ processes' = DictSet(processes, name(d), "Thread")
         /\ UNCHANGED <<manager, insts, forms, active_forms, queue,
                        enq, npop>>

\* how _register_form(n) ends
_register_form_result(n) ==
    IF n \notin DOMAIN FormsView THEN NotAvailable
    ELSE IF FormsView[n] THEN AlreadyActive
    ELSE "None"

_register_form(i, n) ==
    IF _register_form_result(n) \in Raises
    THEN NoEffect
    ELSE /\ active_forms' = Append(active_forms, n)
         /\ UNCHANGED <<manager, insts, forms, processes, queue,
                        enq, npop>>

\* _unregister_form goes on to remove the name
unregisters(n) == n \in DOMAIN FormsView /\ n \in Range(active_forms)

_unregister_form(i, n) ==
    IF ~unregisters(n)
    THEN NoEffect
    ELSE /\ active_forms' = ListRemove(active_forms, n)
         /\ UNCHANGED <<manager, insts, forms, processes, queue,
                        enq, npop>>

----------------------------------------------------------------------------
(* Action queues *)

RECURSIVE SumLen(_, _)
SumLen(d, ks) ==
    IF ks = {} THEN 0
    ELSE LET k == CHOOSE x \in ks : TRUE IN Len(d[k]) + SumLen(d, ks \ {k})

\* appends recorded in the history of the live queue entries
Enqueued == SumLen(enq, DOMAIN enq)

\* how request_action(n, ...) ends
request_action_result(n) ==
    IF n \notin DOMAIN FormsView THEN NonExistingForm ELSE "None"

\* mutant: insert(0, ...) instead of append
enqueue_front(q, n, a) ==
    IF n \in DOMAIN q THEN DictSet(q, n, <<a>> \o q[n])
    ELSE DictSet(q, n, <<a>>)

\* self.__queue[form].append([action, values]), the entry made on demand
enqueue(q, n, a) ==
    IF n \in DOMAIN q THEN DictSet(q, n, Append(q[n], a))
    ELSE DictSet(q, n, <<a>>)

request_action(i, n, a) ==
    IF request_action_result(n) \in Raises
    THEN NoEffect
    ELSE /\ Enqueued < MaxEnq
         /\ queue' = enqueue(queue, n, a)
         /\ enq' = IF n \in DOMAIN enq THEN DictSet(enq, n, Append(enq[n], a))
                   ELSE DictSet(enq, n, <<a>>)
         /\ npop' = IF n \in DOMAIN npop THEN npop ELSE DictSet(npop, n, 0)
         /\ UNCHANGED <<manager, insts, forms, active_forms, processes>>

\* the one-entry dict {action: values} of a queue element
Entry(a) == a[1] :> a[2]

\* the dict check_queue returns: {action: values} of self.queue[name][0]
peek(q, n) ==
    IF n \notin DOMAIN q THEN EmptyDict
    ELSE IF q[n] = << >> THEN EmptyDict
    ELSE q[n][1][1] :> q[n][1][2]

\* mutant: a check_queue that consumes the head it returns
queue_checked_pops(q, n) ==
    IF n \in DOMAIN q /\ q[n] # << >> THEN [q EXCEPT ![n] = Tail(@)] ELSE q

\* the queues after check_queue
queue_checked(q, n) == q

check_queue(i, n) ==
    /\ queue' = queue_checked(queue, n)
    /\ UNCHANGED <<manager, insts, forms, active_forms, processes, enq, npop>>

\* how pop_queue(n) ends
pop_queue_result(n) ==
    IF n \notin DOMAIN queue THEN CouldntPop
    ELSE IF queue[n] = << >> THEN "IndexError"
    ELSE "True"

\* mutant: list.pop() takes the last element
pop_last(s) == SubSeq(s, 1, Len(s) - 1)

\* self.__queue[name].pop(0)
pop_first(s) == Tail(s)

pop_queue(i, n) ==
    IF pop_queue_result(n) # "True"
    THEN NoEffect
    ELSE /\ queue' = [queue EXCEPT ![n] = pop_first(@)]
         /\ npop' = [npop EXCEPT ![n] = @ + 1]
         /\ UNCHANGED <<manager, insts, forms, active_forms, processes, enq>>

----------------------------------------------------------------------------
(* The listener: FormServerHandler.do_POST *)

\* the text of a request body: of a one-key dict {key: val}, of a literal
\* that is no dict, or a text that is no Python literal at all
Body(k, v) == [shape |-> "dict", key |-> k, val |-> v]

NoDict == [shape |-> "literal", key |-> "", val |-> "42"]

Unparseable == [shape |-> "garbage", key |-> "", val |-> "{'register': "]

\* bodies no FormApp sends: what test_dummy_post sends, the two above, and
\* the add_action request, whose branch reads names that do not exist
Malformed == {Unparseable, NoDict, Body("test", "value"),
              Body("add_action", "form1")}

\* what the client gets: the dict the body of the response holds, or no
\* response at all when the handler raised and the connection was dropped
Answer(d) == [raised |-> FALSE, dict |-> d]

Dropped == [raised |-> TRUE, dict |-> EmptyDict]

\* do_POST, from literal_eval to the response; the handler works on the
\* object in the singleton slot
do_POST_result(t) ==
    IF t.shape = "garbage" THEN Dropped
    ELSE IF t.shape = "literal" THEN Dropped
    ELSE IF t.key = "register"
         THEN IF manager = None \/ _register_form_result(t.val) \in Raises
              THEN Dropped ELSE Answer("result" :> "OK")
    ELSE IF t.key = "unregister"
         THEN IF manager = None THEN Dropped ELSE Answer(EmptyDict)
    ELSE IF t.key = "add_action" THEN Dropped
    ELSE IF t.key = "ask_action"
         THEN IF manager = None THEN Dropped ELSE Answer(peek(queue, t.val))
    ELSE IF t.key = "callback"
         THEN IF manager = None \/ pop_queue_result(t.val) = "IndexError"
              THEN Dropped
              ELSE Answer("queue_pop" :> pop_queue_result(t.val))
    ELSE Answer(EmptyDict)

\* mutant: an exception of the handler ends the serving thread
handler_raised_dies(srv) == [srv EXCEPT !.threads = 0]

\* socketserver catches what the handler raises, closes the connection and
\* goes on serving
handler_raised(srv) == srv

\* the request is handled by the listener of object s
do_POST(s, t) ==
    IF do_POST_result(t).raised
    THEN /\ insts' = [insts EXCEPT ![s].server = handler_raised(@)]
         /\ UNCHANGED <<manager, collections>>
    ELSE IF t.key = "register" THEN _register_form(manager, t.val)
    ELSE IF t.key = "unregister" THEN _unregister_form(manager, t.val)
    ELSE IF t.key = "ask_action" THEN check_queue(manager, t.val)
    ELSE IF t.key = "callback" THEN pop_queue(manager, t.val)
    ELSE NoEffect

----------------------------------------------------------------------------
(* The child processes: FormApp *)

\* keys of FormApp.__actions
KnownKinds == {"pass", "print", "setattr", "print_value", "call", "call_args",
               "call_kwargs", "call_args_kwargs", "stop"}

\* an action whose operation raises: setattr(*'x') is setattr('x'), a
\* TypeError
Raising == {<<"setattr", "x">>}

\* what callers of this model ask of a child: the Actions, one of a kind
\* that FormApp.__actions does not hold, and one whose operation raises
Requests == Actions \cup {<<"jump", "high">>} \cup Raising

\* the process run_form starts: App.name is taken to be the Form's name, the
\* port is the one the manager had when run_form was called. pc is where the
\* process is: "launched" before on_start, "idle" in the event loop between
\* two callbacks, "on_stop" in _unregister before its request, "callback" in
\* _ask before its callback request, "closing" when the event loop has ended,
\* "exited" with the exit status in code. status is the local status of
\* _ask, sent with the callback. elem is history: the place, in what was
\* appended to the queue entry, of the action the process was handed and
\* has not popped, 0 if none or if not kept. timers counts the scheduled _ask
\* events, asking tells whether the event in self.asking is one of them,
\* delivered records that the listener handled an unregister of this process
FormApp(n, p) ==
    [name |-> n, port |-> p, pc |-> "launched", timers |-> 0,
     asking |-> FALSE, exitstatus |-> 1, action |-> "none", status |-> 0,
     elem |-> 0, delivered |-> FALSE, code |-> -1]

Procs == 1..Len(workers)

\* a listener answers on port p
Listening(p) == p # 0 /\ \E i \in Insts : Serving(i) /\ insts[i].server.addr = p

\* the object whose listener answers on port p
Listener(p) == CHOOSE i \in Insts : Serving(i) /\ insts[i].server.addr = p

\* self.asking = Clock.schedule_interval(self._ask, ...)
schedule(w) == [w EXCEPT !.timers = @ + 1, !.asking = TRUE]

\* Clock.unschedule(self.asking): cancels that one event, if still scheduled
unschedule(w) ==
    IF w.asking THEN [w EXCEPT !.timers = @ - 1, !.asking = FALSE] ELSE w

\* the process has ended with status c
exited(w, c) ==
    [w EXCEPT !.pc = "exited", !.code = c, !.timers = 0, !.asking = FALSE,
              !.action = "none", !.status = 0]

\* __send_json when nothing listens on the port: URLError. Where its text
\* holds '10061' (Windows) the process leaves with exit(self.__exitstatus),
\* elsewhere the error is raised again and ends the process with status 1
refused(w) == {exited(w, w.exitstatus), exited(w, 1)}

\* run_form of a manager that was not killed starts the child
launch(i, d) ==
    /\ run_form(i, d)
    /\ IF insts[i].killed
       THEN UNCHANGED workers
       ELSE /\ Len(workers) < MaxWorkers
            /\ workers' = Append(workers, FormApp(name(d), insts[i].port))

\* run_form called again for a Form: one more child
relaunch(i, d) ==
    /\ run_form(i, d)
    /\ ~insts[i].killed
    /\ Len(workers) < MaxWorkers + MaxRelaunch
    /\ workers' = Append(workers, FormApp(name(d), insts[i].port))

\* on_start -> _register
on_start(k) ==
    LET w == workers[k]
        t == Body("register", w.name)
    IN  /\ w.pc = "launched"
        /\ IF ~Listening(w.port)
           THEN /\ \E x \in refused(w) : workers' = [workers EXCEPT ![k] = x]
                /\ UNCHANGED state
           ELSE /\ do_POST(Listener(w.port), t)
                /\ workers' = [workers EXCEPT ![k] =
                      IF do_POST_result(t).raised THEN exited(w, 1)
                      ELSE [schedule(w) EXCEPT !.pc = "idle"]]

\* mutant: a timer that fires while a callback of the process is running
may_ask_reentrant(w) == w.pc \in {"idle", "callback", "on_stop"} /\ w.timers > 0

\* a scheduled _ask event fires: the Clock calls back from the event loop only
may_ask(w) == w.pc = "idle" /\ w.timers > 0

\* mutant: an _ask without the try around the operation
executed_uncaught(w, kind, values) ==
    IF <<kind, values>> \in Raising THEN exited(w, 1)
    ELSE [w EXCEPT !.pc = "callback", !.action = kind]

\* self.__actions[key](*result[key]) in its try: an Exception of the
\* operation sets status to 1, and the callback is next in either case
executed(w, kind, values) ==
    [w EXCEPT !.pc = "callback", !.action = kind,
              !.status = IF <<kind, values>> \in Raising THEN 1 ELSE 0]

\* the keys of a response whose operation _ask runs: "for key in result",
\* skipping the keys that __actions does not hold
operations(r) == DOMAIN r \cap KnownKinds

\* _ask on a response of several keys, none of them 'stop': len(result) > 1
\* sets status to 1, and the loop goes on to run the operation of every key
\* in __actions; action is the key it ran last
several(w, r) ==
    [w EXCEPT !.pc = "callback", !.status = 1,
              !.action = CHOOSE x \in operations(r) : TRUE]

\* _ask, from its ask_action request to the point before its callback
\* request; the 'stop' action calls App.stop(), which dispatches on_stop,
\* and with it _unregister, before it returns
asked(w, r) ==
    IF r = EmptyDict THEN schedule(w)
    ELSE IF operations(r) = {} THEN schedule(unschedule(w))
    ELSE IF Cardinality(DOMAIN r) > 1 THEN several(unschedule(w), r)
    ELSE LET kind == CHOOSE x \in DOMAIN r : TRUE
         IN  IF kind = "stop"
             THEN [unschedule(w) EXCEPT !.pc = "on_stop", !.action = kind]
             ELSE executed(unschedule(w), kind, r[kind])

\* history: x holds the head of the queue of n if it holds an action
handed(x, n) ==
    [x EXCEPT !.elem = IF x.action = "none" THEN 0 ELSE npop[n] + 1]

\* _ask of child k, from its ask_action request to the point before its
\* callback request; keep tells whether the history of what it was handed
\* is kept
_ask_recording(k, keep) ==
    LET w == workers[k]
        t == Body("ask_action", w.name)
    IN  /\ may_ask(w)
        /\ IF ~Listening(w.port)
           THEN /\ \E x \in refused(w) : workers' = [workers EXCEPT ![k] = x]
                /\ UNCHANGED state
           ELSE /\ do_POST(Listener(w.port), t)
                /\ IF do_POST_result(t).raised
                   THEN workers' = [workers EXCEPT ![k] = exited(w, 1)]
                   ELSE /\ asked(w, do_POST_result(t).dict).timers <= MaxTimers
                        /\ workers' = [workers EXCEPT ![k] =
                              IF keep
                              THEN handed(asked(w, do_POST_result(t).dict),
                                          w.name)
                              ELSE asked(w, do_POST_result(t).dict)]

_ask(k) == _ask_recording(k, FALSE)

\* _ask, with the place of the action it was handed kept as history
_ask_handed(k) == _ask_recording(k, TRUE)

\* an exception of _unregister: out of on_stop it ends the process with
\* status 1; inside the 'stop' action _ask catches it (except Exception),
\* notes status 1 for the callback and goes on to the callback request
failed_on_stop(w) ==
    IF w.action = "none" THEN exited(w, 1)
    ELSE [w EXCEPT !.pc = "callback", !.status = 1]

\* _unregister: the exit status is set before the request is sent; exit()
\* of __send_json is no Exception and ends the process
_unregister(k) ==
    LET w == [workers[k] EXCEPT !.exitstatus = 0]
        t == Body("unregister", w.name)
    IN  /\ w.pc = "on_stop"
        /\ IF ~Listening(w.port)
           THEN /\ \E x \in {exited(w, w.exitstatus), failed_on_stop(w)} :
                      workers' = [workers EXCEPT ![k] = x]
                /\ UNCHANGED state
           ELSE /\ do_POST(Listener(w.port), t)
                /\ workers' = [workers EXCEPT ![k] =
                      IF do_POST_result(t).raised THEN failed_on_stop(w)
                      ELSE [unschedule(w) EXCEPT
                              !.delivered = TRUE,
                              !.pc = IF w.action = "none" THEN "closing"
                                     ELSE "callback"]]

\* mutant: an _ask that goes on polling whatever the callback was answered
called_back_lenient(w, r) ==
    [schedule(w) EXCEPT !.action = "none", !.status = 0, !.elem = 0,
                        !.pc = IF w.action = "stop" THEN "closing" ELSE "idle"]

\* the rest of _ask: the callback request, the test of 'queue_pop', and the
\* new schedule_interval; after the 'stop' action the event loop ends,
\* unless on_stop raised and App.stop() never came to stop the loop
called_back(w, r) ==
    IF "queue_pop" \notin DOMAIN r \/ r["queue_pop"] # "True"
    THEN exited(w, 1)
    ELSE [schedule(w) EXCEPT !.action = "none", !.status = 0, !.elem = 0,
                             !.pc = IF w.action = "stop" /\ w.status = 0
                                    THEN "closing" ELSE "idle"]

callback(k) ==
    LET w == workers[k]
        t == Body("callback", w.name)
    IN  /\ w.pc = "callback"
        /\ IF ~Listening(w.port)
           THEN /\ \E x \in refused(w) : workers' = [workers EXCEPT ![k] = x]
                /\ UNCHANGED state
           ELSE /\ do_POST(Listener(w.port), t)
                /\ workers' = [workers EXCEPT ![k] =
                      IF do_POST_result(t).raised THEN exited(w, 1)
                      ELSE called_back(w, do_POST_result(t).dict)]

\* the user closes the window of the child: Kivy dispatches on_stop
close_window(k) ==
    /\ workers[k].pc = "idle"
    /\ workers' = [workers EXCEPT ![k].pc = "on_stop"]
    /\ UNCHANGED state

\* App.run() returns and the interpreter ends
exit_process(k) ==
    /\ workers[k].pc = "closing"
    /\ workers' = [workers EXCEPT ![k] = exited(@, 0)]
    /\ UNCHANGED state

\* any client of the listener sends a body that no FormApp sends
post(t) ==
    /\ \E i \in Insts : Serving(i) /\ do_POST(i, t)
    /\ UNCHANGED workers

----------------------------------------------------------------------------
(* Specification: a caller holding any of the constructed objects calls    *)
(* any operation with any argument, the operations of the listener         *)
(* included, and clients send the listener what no FormApp sends; no child *)
(* process runs                                                            *)

Next ==
    \/ construct /\ UNCHANGED workers
    \/ \E i \in Insts : run(i) /\ UNCHANGED workers
    \/ \E i \in Insts : stop(i) /\ UNCHANGED workers
    \/ \E i \in Insts : kill(i) /\ UNCHANGED workers
    \/ \E i \in Insts, x \in Descs \cup {NonForm} :
          add_form(i, x) /\ UNCHANGED workers
    \/ \E i \in Insts, d \in Descs : remove_form(i, d) /\ UNCHANGED workers
    \/ \E i \in Insts, d \in Descs : run_form(i, d) /\ UNCHANGED workers
    \/ \E i \in Insts, n \in Names : _register_form(i, n) /\ UNCHANGED workers
    \/ \E i \in Insts, n \in Names :
          _unregister_form(i, n) /\ UNCHANGED workers
    \/ \E i \in Insts, n \in Names, a \in Actions :
          request_action(i, n, a) /\ UNCHANGED workers
    \/ \E i \in Insts, n \in Names : check_queue(i, n) /\ UNCHANGED workers
    \/ \E i \in Insts, n \in Names : pop_queue(i, n) /\ UNCHANGED workers
    \/ \E t \in Malformed : post(t)

Spec == Init /\ [][Next]_vars

----------------------------------------------------------------------------
(* Specification of the whole system: the caller makes one FormManager and *)
(* one Form and uses the public interface, calling run() when the server   *)
(* is not running; the children run FormApp. (What other clients send the  *)
(* listener changes no state, see post, so they take no step here.)        *)

\* the Form the caller makes
SystemForms == {"d1"}

SystemNext ==
    \/ insts = << >> /\ construct /\ UNCHANGED workers
    \/ \E i \in Insts : ~insts[i].running /\ run(i) /\ UNCHANGED workers
    \/ \E i \in Insts : stop(i) /\ UNCHANGED workers
    \/ \E i \in Insts : kill(i) /\ UNCHANGED workers
    \/ \E i \in Insts, d \in SystemForms : add_form(i, d) /\ UNCHANGED workers
    \/ \E i \in Insts, d \in SystemForms :
          remove_form(i, d) /\ UNCHANGED workers
    \/ \E i \in Insts, d \in SystemForms : launch(i, d)
    \/ \E i \in Insts, n \in Names, a \in Requests :
          request_action(i, n, a) /\ UNCHANGED workers
    \/ \E k \in Procs : on_start(k)
    \/ \E k \in Procs : _ask(k)
    \/ \E k \in Procs : _unregister(k)
    \/ \E k \in Procs : callback(k)
    \/ \E k \in Procs : close_window(k)
    \/ \E k \in Procs : exit_process(k)

System == Init /\ [][SystemNext]_vars

\* the children run: each step of a FormApp that can be taken is taken in the
\* end (the Clock fires a scheduled event, a blocking request returns); the
\* caller, the user and the other clients are free to do nothing
FairSystem ==
    /\ System
    /\ \A k \in 1..MaxWorkers :
          /\ WF_vars(k \in Procs /\ on_start(k))
          /\ WF_vars(k \in Procs /\ _ask(k))
          /\ WF_vars(k \in Procs /\ _unregister(k))
          /\ WF_vars(k \in Procs /\ callback(k))
          /\ WF_vars(k \in Procs /\ exit_process(k))

----------------------------------------------------------------------------
(* Specification of the system with other listeners: when the listener of  *)
(* the FormManager does not answer on the port of a child, any other       *)
(* program may have bound the port, and it answers each request of the     *)
(* child with any of the Responses                                         *)

\* the answers to a poll: none, one action, or two keys in one dict
Responses ==
    {EmptyDict}
    \cup {Entry(a) : a \in Requests}
    \cup {("print" :> "hello") @@ ("setattr" :> "x"),
          ("print" :> "hello") @@ ("jump" :> "high")}

\* the answers to a callback
Confirmations ==
    {"queue_pop" :> "True", "queue_pop" :> CouldntPop, EmptyDict}

\* _ask with the answer r to its ask_action request
poll_answered(k, r) ==
    /\ may_ask(workers[k])
    /\ ~Listening(workers[k].port)
    /\ asked(workers[k], r).timers <= MaxTimers
    /\ workers' = [workers EXCEPT ![k] = asked(@, r)]
    /\ UNCHANGED state

\* _unregister with its request answered
unregister_answered(k) ==
    LET w == [workers[k] EXCEPT !.exitstatus = 0]
    IN  /\ w.pc = "on_stop"
        /\ ~Listening(w.port)
        /\ workers' = [workers EXCEPT ![k] =
                         [unschedule(w) EXCEPT
                            !.pc = IF w.action = "none" THEN "closing"
                                   ELSE "callback"]]
        /\ UNCHANGED state

\* the rest of _ask with the answer r to its callback request
callback_answered(k, r) ==
    /\ workers[k].pc = "callback"
    /\ ~Listening(workers[k].port)
    /\ workers' = [workers EXCEPT ![k] = called_back(@, r)]
    /\ UNCHANGED state

PollNext ==
    \/ SystemNext
    \/ \E k \in Procs, r \in Responses : poll_answered(k, r)
    \/ \E k \in Procs : unregister_answered(k)
    \/ \E k \in Procs, r \in Confirmations : callback_answered(k, r)

Poll == Init /\ [][PollNext]_vars

----------------------------------------------------------------------------
(* Specification of repeated run_form: the caller makes one FormManager    *)
(* and one Form, runs the server, keeps both, requests actions and calls   *)
(* run_form again and again; the children run FormApp                      *)

RelaunchNext ==
    \/ insts = << >> /\ construct /\ UNCHANGED workers
    \/ \E i \in Insts : ~insts[i].running /\ run(i) /\ UNCHANGED workers
    \/ \E i \in Insts, d \in SystemForms : add_form(i, d) /\ UNCHANGED workers
    \/ \E i \in Insts, d \in SystemForms : relaunch(i, d)
    \/ \E i \in Insts, n \in Names, a \in Actions :
          request_action(i, n, a) /\ UNCHANGED workers
    \/ \E k \in Procs : on_start(k)
    \/ \E k \in Procs : _ask_handed(k)
    \/ \E k \in Procs : _unregister(k)
    \/ \E k \in Procs : callback(k)
    \/ \E k \in Procs : exit_process(k)

Relaunch == Init /\ [][RelaunchNext]_vars

----------------------------------------------------------------------------
(* Specification of two names: the caller makes one FormManager and two    *)
(* Forms of different names; the caller's thread and the listener's thread *)
(* run the operations of the two names in any order, and the listener may  *)
(* read the forms property while the caller is in remove_form              *)

\* the Forms the caller makes
PairForms == {"d1", "d3"}

PairNames == {name(d) : d \in PairForms}

NamesOf(s) == {name(f) : f \in Range(s)}

\* the keys of the dict the forms property builds when remove_form(d) runs
\* in the other thread during its loop "for ins in self.__forms": no lock is
\* held, the list iterator goes by index, so with k Forms read before
\* self.__forms.remove(d) the loop goes on at index k of the shortened list
\* and skips the Form that moved down to index k - 1
forms_read_during_remove(d) ==
    {NamesOf(SubSeq(forms, 1, k))
        \cup NamesOf(SubSeq(forms_removed(d), k + 1, Len(forms) - 1)) :
     k \in 0..Len(forms)}

\* the listener's thread handles register n while the caller's thread is in
\* remove_form(d): _register_form reads self.forms once, a dict built as
\* above, and tests the name and its 'active' flag on it
_register_form_during_remove(i, n, d) ==
    /\ ~insts[i].killed
    /\ form_in_forms(d)
    /\ \E view \in forms_read_during_remove(d) :
          active_forms' = IF n \in view /\ n \notin Range(active_forms)
                          THEN Append(active_forms, n) ELSE active_forms
    /\ queue' = queue_removed(queue, d)
    /\ enq' = queue_removed(enq, d)
    /\ npop' = queue_removed(npop, d)
    /\ forms' = forms_removed(d)
    /\ UNCHANGED <<manager, insts, processes>>

PairNext ==
    \/ insts = << >> /\ construct /\ UNCHANGED workers
    \/ \E i \in Insts, d \in PairForms : add_form(i, d) /\ UNCHANGED workers
    \/ \E i \in Insts, n \in PairNames, d \in PairForms :
          n # name(d) /\ _register_form_during_remove(i, n, d)
                      /\ UNCHANGED workers
    \/ \E i \in Insts, d \in PairForms :
          remove_form(i, d) /\ UNCHANGED workers
    \/ \E i \in Insts, n \in PairNames :
          _register_form(i, n) /\ UNCHANGED workers
    \/ \E i \in Insts, n \in PairNames :
          _unregister_form(i, n) /\ UNCHANGED workers
    \/ \E i \in Insts, n \in PairNames, a \in Actions :
          request_action(i, n, a) /\ UNCHANGED workers
    \/ \E i \in Insts, n \in PairNames : check_queue(i, n) /\ UNCHANGED workers
    \/ \E i \in Insts, n \in PairNames : pop_queue(i, n) /\ UNCHANGED workers

Pair == Init /\ [][PairNext]_vars

----------------------------------------------------------------------------
(* Vocabulary of the properties *)

\* names of the known workers
Known == {name(f) : f \in Range(forms)}

\* names of the active workers
Active == Range(active_forms)

\* the observable registry and queue state
registry == <<forms, active_forms, queue>>

Live(i) == i \in Insts /\ ~insts[i].killed

Count(s, x) == Cardinality({k \in 1..Len(s) : s[k] = x})

\* some operation is called on object i
Operation(i) ==
    \/ run(i) \/ stop(i) \/ kill(i)
    \/ \E x \in Descs \cup {NonForm} : add_form(i, x)
    \/ \E d \in Descs : remove_form(i, d) \/ run_form(i, d)
    \/ \E n \in Names : \/ _register_form(i, n) \/ _unregister_form(i, n)
                        \/ check_queue(i, n) \/ pop_queue(i, n)
                        \/ \E a \in Actions : request_action(i, n, a)

----------------------------------------------------------------------------
(* C1..C5 *)

\* C1: after any sequence of operations the set of active worker names is a
\* subset of the set of known worker names.
C1_ActiveSubsetKnown == Active \subseteq Known

\* C2: when a Form with the same derived name as d2 is already known, and
\* d2 is another object, add_form(d2) fails with the duplicate error and
\* leaves the known set as it was.
C2_DuplicateNameRejected ==
    [][\A i \in Insts, x \in Descs :
          ( /\ Live(i)
            /\ \E f \in Range(forms) : f # x /\ name(f) = name(x)
            /\ add_form(i, x) )
          => (add_form_result(i, x) = AlreadyExists /\ forms' = forms)]_vars

\* C3: a worker's actions are observed in enqueue order: the queue of a
\* name always holds what was enqueued into that entry minus its first npop
\* elements, so the k-th successful pop removes the k-th enqueued action,
\* and check_queue returns only the entry of the oldest action not yet
\* popped. (enq and npop start afresh when remove_form or a new FormManager
\* discards the entry.)
C3_Fifo ==
    \A n \in DOMAIN queue :
        /\ npop[n] <= Len(enq[n])
        /\ queue[n] = SubSeq(enq[n], npop[n] + 1, Len(enq[n]))
        /\ peek(queue, n) = IF npop[n] < Len(enq[n])
                            THEN Entry(enq[n][npop[n] + 1])
                            ELSE EmptyDict

\* C3 witness: a1 then a2 were enqueued, one pop has succeeded, and
\* check_queue returns a2's entry
C3_Witness ==
    \E n \in DOMAIN queue :
        /\ Len(enq[n]) = 2 /\ enq[n][1] # enq[n][2] /\ npop[n] = 1
        /\ peek(queue, n) = Entry(enq[n][2])

\* what check_queue(n) returns, as C4 has it
C4_Returns ==
    \A n \in Names :
        IF n \notin DOMAIN queue \/ queue[n] = << >>
        THEN peek(queue, n) = EmptyDict
        ELSE /\ DOMAIN peek(queue, n) = {queue[n][1][1]}
             /\ peek(queue, n)[queue[n][1][1]] = queue[n][1][2]

\* C4: check_queue(name) returns the empty dict when name has no queue entry
\* or an empty queue, otherwise the one-entry dict of the head element, and
\* it leaves the queues, the known set and the active set unchanged.
C4_Peek ==
    /\ []C4_Returns
    /\ [][\A i \in Insts, n \in Names :
             check_queue(i, n) => UNCHANGED registry]_vars

\* C4 witness: a queue of two different elements, of which check_queue
\* returns the first, while a Form is known and active
C4_Witness ==
    /\ forms # << >> /\ active_forms # << >>
    /\ \E n \in DOMAIN queue :
          /\ Len(queue[n]) = 2 /\ queue[n][1] # queue[n][2]
          /\ DOMAIN peek(queue, n) = {queue[n][1][1]}

\* C5: after remove_form(d) of a known d there is no queue entry for d.name
\* and request_action(d.name, ...) fails with the unknown-worker error.
C5_RemovedIsUnknown ==
    [][\A i \in Insts, d \in Descs :
          (Live(i) /\ form_in_forms(d) /\ remove_form(i, d))
          => /\ name(d) \notin DOMAIN queue'
             /\ (request_action_result(name(d)) = NonExistingForm)']_vars

----------------------------------------------------------------------------
(* C6..C10 *)

\* how request_action(n, ...) ends, as C6 has it
C6_Outcome ==
    \A n \in Names :
        IF n \notin Known
        THEN request_action_result(n) = NonExistingForm
        ELSE request_action_result(n) \notin Raises

\* C6: request_action(name, ...) for a name that is not known fails with an
\* error and leaves the queue mapping unchanged; for a known name it appends
\* exactly one element to the tail of that name's queue, creating the entry
\* if absent, and touches no other entry.
C6_RequestAction ==
    /\ []C6_Outcome
    /\ [][\A i \in Insts, n \in Names, a \in Actions :
             request_action(i, n, a)
             => IF n \notin Known
                THEN queue' = queue
                ELSE /\ DOMAIN queue' = DOMAIN queue \cup {n}
                     /\ queue'[n] = Append(IF n \in DOMAIN queue THEN queue[n]
                                           ELSE << >>, a)
                     /\ \A m \in DOMAIN queue \ {n} : queue'[m] = queue[m] ]_vars

\* C6 witness: request_action has appended a second, different element
\* behind the one already queued for a known name
C6_Witness ==
    \E n \in DOMAIN queue :
        /\ n \in Known
        /\ Len(queue[n]) = 2
        /\ queue[n][1] # queue[n][2]
        /\ queue[n] = enq[n]

\* how register_worker(n) ends, as C7 has it
C7_Outcome ==
    \A n \in Names :
        IF n \notin Known THEN _register_form_result(n) = NotAvailable
        ELSE IF n \in Active THEN _register_form_result(n) = AlreadyActive
        ELSE _register_form_result(n) \notin Raises

\* C7: register_worker(name) fails when name is unknown and fails when name
\* is already active, leaving the active set unchanged, and otherwise adds
\* name to the active set exactly once; unregister_worker(name) on an
\* unknown or inactive name returns normally and changes no state.
C7_Registration ==
    /\ []C7_Outcome
    /\ [][\A i \in Insts, n \in Names :
             /\ _register_form(i, n)
                => IF n \notin Known \/ n \in Active
                   THEN active_forms' = active_forms
                   ELSE /\ Range(active_forms') = Active \cup {n}
                        /\ Count(active_forms', n) = 1
                        /\ Len(active_forms') = Len(active_forms) + 1
             /\ (_unregister_form(i, n) /\ (n \notin Known \/ n \notin Active))
                => UNCHANGED vars ]_vars

\* C7 witness: a known worker is in the active list once, a second register
\* of it is refused as already active
C7_Witness ==
    \E n \in Known :
        /\ Count(active_forms, n) = 1
        /\ _register_form_result(n) = AlreadyActive

\* C8: while an object that was not killed exists, every construction
\* returns that object; when every constructed object has been killed (or
\* none was constructed), construction returns a new object that is not
\* killed, not running, with empty known set, active set and queues.
C8_Singleton ==
    /\ [](\A i \in Insts : Live(i) => constructed = i)
    /\ [][construct
          => /\ manager' = constructed
             /\ IF \E i \in Insts : Live(i)
                THEN /\ Len(insts') = Len(insts)
                     /\ \A i \in Insts : insts'[i].killed = insts[i].killed
                ELSE /\ constructed \notin Insts
                     /\ constructed \in 1..Len(insts')
                     /\ ~insts'[constructed].killed
                     /\ ~insts'[constructed].running
                     /\ forms' = << >>
                     /\ active_forms' = << >>
                     /\ queue' = EmptyDict ]_vars

\* C8 witness: the first object was killed and the construction after it
\* has returned a second object, which is the singleton now: not killed, not
\* running, with empty collections
C8_Witness ==
    /\ Len(insts) = 2
    /\ insts[1].killed
    /\ insts[1].port # 0
    /\ manager = 2
    /\ ~insts[2].killed /\ ~insts[2].running /\ ~insts[2].server.made
    /\ forms = << >> /\ active_forms = << >> /\ queue = EmptyDict

\* C9: once kill() has been called on an object, every further operation on
\* that object changes no known-set, active-set or queue state.
C9_KilledIsInert ==
    [][\A i \in Insts :
          (insts[i].killed /\ Operation(i)) => UNCHANGED registry]_vars

\* C10: on an object that was not killed, after run() the port is non-zero
\* and running is true; stop() sets running to false and leaves the port,
\* the known set, the active set and all queues unchanged.
C10_RunStop ==
    [][\A i \in Insts :
          Live(i)
          => /\ run(i) => (insts'[i].port # 0 /\ insts'[i].running)
             /\ stop(i) => /\ ~insts'[i].running
                           /\ insts'[i].port = insts[i].port
                           /\ UNCHANGED registry ]_vars

\* C10 witness: stop() has returned on a server that had run: it is not
\* running, its socket is closed, it keeps its port, and the Forms and the
\* queued actions are still there
C10_Witness ==
    /\ \E i \in Insts :
          /\ Live(i)
          /\ ~insts[i].running
          /\ insts[i].port # 0
          /\ insts[i].server.closed
    /\ forms # << >>
    /\ active_forms # << >>
    /\ \E n \in DOMAIN queue : queue[n] # << >>

----------------------------------------------------------------------------
(* C11..C12: the life cycle of the listener *)

\* C11: on an object that was not killed, run() after run() and stop()
\* succeeds: running is true, the listener accepts and answers requests
\* again, and the port is the one of the first run (no port 0 is requested:
\* run() writes the bound port into the object).
C11_RerunServes ==
    [][\A i \in Insts :
          ( /\ Live(i)
            /\ insts[i].server.made /\ insts[i].server.closed
            /\ ~insts[i].running
            /\ run(i) )
          => /\ insts'[i].running
             /\ insts'[i].port = insts[i].port
             /\ Serving(i)' ]_vars

\* what a caller can observe of an object
Observable(o) == <<o.running, o.killed, o.port>>

\* the object after stop(), and after kill()
stop_of(o) == IF o.killed THEN o ELSE stopped(o)

kill_of(o) == IF o.killed THEN o ELSE [stopped(o) EXCEPT !.killed = TRUE]

\* the singleton slot m after kill() on object o
slot_killed(o, m) == IF o.killed THEN m ELSE None

\* C12: stop() and kill() are idempotent: in every reachable state, for
\* every object, the second of two consecutive stop() calls changes none of
\* running, killed and port (stop() touches neither the collections nor the
\* singleton slot), and the second of two consecutive kill() calls changes
\* none of running, killed, port and the singleton slot.
C12_Idempotent ==
    \A i \in Insts :
        /\ Observable(stop_of(stop_of(insts[i]))) = Observable(stop_of(insts[i]))
        /\ Observable(kill_of(kill_of(insts[i]))) = Observable(kill_of(insts[i]))
        /\ slot_killed(kill_of(insts[i]), slot_killed(insts[i], manager))
               = slot_killed(insts[i], manager)

\* C12 witness: kill() has acted on the first object, which had run, and
\* stop() has acted on the second, which had run too
C12_Witness ==
    /\ Len(insts) = 2
    /\ insts[1].killed /\ insts[1].server.closed /\ manager = 2
    /\ ~insts[2].killed /\ ~insts[2].running
    /\ insts[2].server.closed /\ insts[2].port # 0

----------------------------------------------------------------------------
(* C13..C20: the children and the listener *)

\* a child of name n is registered and polls a listener that answers
Polled(n) ==
    /\ n \in Active
    /\ \E k \in Procs :
          /\ workers[k].name = n
          /\ workers[k].pc \in {"idle", "callback"}
          /\ Listening(workers[k].port)

\* the queue of n holds an action
Pending(n) == n \in DOMAIN queue /\ queue[n] # << >>

\* C13: while the listener answers and a child stays registered and keeps
\* polling, every action request_action accepted for it is removed from its
\* queue in the end: from a state where its queue holds c actions, a state
\* is reached where it holds fewer, or the child has stopped polling, or the
\* listener has stopped answering.
C13_Drained ==
    \A n \in Names, c \in 1..MaxEnq :
        (Polled(n) /\ Pending(n) /\ Len(queue[n]) = c)
        ~> (~Polled(n) \/ ~Pending(n) \/ Len(queue[n]) < c)

\* the child is between the answer to a poll that held an action it runs
\* and the answer to the callback for that action
MidAction(w) == w.pc \in {"on_stop", "callback"} /\ w.action # "none"

\* C14: within one child at most one action is mid-execution and no two
\* polls are outstanding: a child holds one action at most, and from the
\* answer to a poll that held it to the answer to its callback the child
\* sends no ask_action, whatever _ask events are still scheduled.
C14_OneAtATime ==
    [][\A k \in Procs :
          MidAction(workers[k])
          => /\ ~_ask(k)
             /\ workers'[k].action \in {workers[k].action, "none"} ]_vars

\* C14 witness: the child runs 'print' and has not sent its callback yet,
\* while an _ask event is still scheduled
C14_Witness ==
    \E k \in Procs :
        /\ workers[k].pc = "callback"
        /\ workers[k].action = "print"
        /\ workers[k].timers > 0

\* C15: after a child has exited, by any path, and no other child of its
\* name runs, its name is not in the active set (so that a relaunched child
\* of that name can register).
C15_ExitedIsInactive ==
    \A k \in Procs :
        ( /\ workers[k].pc = "exited"
          /\ \A j \in Procs : workers[j].name = workers[k].name
                              => workers[j].pc = "exited" )
        => workers[k].name \notin Active

\* what the client of a malformed request gets: no response, or the empty
\* one of the branch that ignores what is not implemented
C16_Failed ==
    /\ \A t \in Malformed : do_POST_result(t) \in {Dropped, Answer(EmptyDict)}
    /\ \A i \in Insts :
          Serving(i) => handler_raised(insts[i].server) = insts[i].server

\* C16: a request whose body does not parse, or parses to something that is
\* not one of the requests of a FormApp, fails alone: it changes no Form,
\* active name or queue, the listener that handled it goes on serving, and
\* with the state unchanged a later request is answered as it would have
\* been before.
C16_Isolated ==
    /\ []C16_Failed
    /\ [][\A t \in Malformed :
             post(t) => /\ UNCHANGED registry
                        /\ \A i \in Insts : Serving(i) => Serving(i)' ]_vars

\* C16 witness: a listener serves for the singleton, whose Form is active
\* and has an action queued; the unparseable request is dropped and the
\* poll is answered with the head of the queue
C16_Witness ==
    \E i \in Insts :
        /\ Serving(i) /\ manager = i
        /\ \E n \in Active \cap Known :
              /\ Pending(n)
              /\ do_POST_result(Unparseable) = Dropped
              /\ do_POST_result(Body("ask_action", n)) = Answer(Entry(queue[n][1]))

\* C17: a child that has exited with status 0 had its unregister request
\* handled by the listener; a child that lost the listener before that has
\* exited with another status.
C17_CleanExit ==
    \A k \in Procs :
        (workers[k].pc = "exited" /\ workers[k].code = 0)
        => workers[k].delivered

\* C18: an ask_action request for a name that is not in the active set,
\* never registered or unregistered again, is answered with the empty dict,
\* also when the queue of that name holds actions.
C18_OnlyActiveIsServed ==
    \A n \in Names :
        (manager # None /\ n \notin Active)
        => do_POST_result(Body("ask_action", n)) = Answer(EmptyDict)

\* C19: a child that runs the 'stop' action sends the callback of that
\* action before it sends unregister: while the action is not called back
\* no unregister request leaves the child, and its callback request, which
\* pops the action, is sent while its name is in the active set.
C19_CallbackBeforeUnregister ==
    [][\A k \in Procs :
          workers[k].action = "stop"
          => /\ ~_unregister(k)
             /\ callback(k) => workers[k].name \in Active ]_vars

\* the child has run the 'stop' action and the listener has handled its
\* unregister request
Terminated(w) == w.pc = "callback" /\ w.action = "stop" /\ w.delivered

\* C20: once a child has run the 'stop' action and sent unregister, its
\* polling has stopped: no _ask event is scheduled then or after the
\* callback of the action, and after its unregister the child sends no
\* ask_action request.
C20_PollingStopped ==
    [][\A k \in Procs :
          /\ workers[k].delivered => ~_ask(k)
          /\ Terminated(workers[k])
             => (workers[k].timers = 0 /\ workers'[k].timers = 0) ]_vars

----------------------------------------------------------------------------
(* C21..C30 *)

\* the answer to a callback does not confirm the pop
Unconfirmed(r) == "queue_pop" \notin DOMAIN r \/ r["queue_pop"] # "True"

\* C21: when the answer to the callback of a child lacks 'queue_pop' or
\* holds another value than True, the child ends there: it schedules no
\* poll and runs no further action (a child that has exited takes no step).
C21_Fatal ==
    [][\A k \in Procs :
          LET w == workers[k]
              t == Body("callback", w.name)
          IN  /\ ( /\ w.pc = "callback" /\ Listening(w.port)
                   /\ ~do_POST_result(t).raised
                   /\ Unconfirmed(do_POST_result(t).dict)
                   /\ callback(k) )
                 => (workers'[k].pc = "exited" /\ workers'[k].timers = 0)
              /\ w.pc = "exited" => workers'[k] = w ]_vars

\* C21 witness: the Form was removed and added again while the child ran
\* its action; the callback was answered with the message of pop_queue and
\* the child has exited with status 1, its listener still answering
C21_Witness ==
    \E k \in Procs :
        /\ workers[k].pc = "exited" /\ workers[k].code = 1
        /\ ~workers[k].delivered
        /\ Listening(workers[k].port)
        /\ workers[k].name \in Active \cap Known
        /\ workers[k].name \notin DOMAIN queue

\* C22: when the operation of the action a poll hands out raises, the child
\* goes on: the poll leaves it before its callback with status 1 and the
\* queue as it was, and the confirmed callback of a failed action pops one
\* element of the queue (the action is not handed out again) and schedules
\* the next poll.
C22_FailedActionIsPopped ==
    [][\A k \in Procs :
          LET w == workers[k]
              n == w.name
          IN  /\ ( /\ Listening(w.port) /\ manager # None /\ Pending(n)
                   /\ queue[n][1] \in Raising
                   /\ _ask(k) )
                 => /\ workers'[k].pc = "callback"
                    /\ workers'[k].status = 1
                    /\ queue' = queue
              /\ ( /\ w.pc = "callback" /\ w.status = 1 /\ w.action # "stop"
                   /\ Listening(w.port) /\ manager # None /\ Pending(n)
                   /\ callback(k) )
                 => /\ workers'[k].pc = "idle"
                    /\ workers'[k].timers > 0
                    /\ queue'[n] = Tail(queue[n])
                    /\ npop'[n] = npop[n] + 1 ]_vars

\* C22 witness: the action that raised was called back and popped, and the
\* child polls again
C22_Witness ==
    \E k \in Procs :
        LET n == workers[k].name
        IN  /\ workers[k].pc = "idle" /\ workers[k].timers > 0
            /\ n \in DOMAIN enq
            /\ npop[n] = 1 /\ enq[n][1] \in Raising
            /\ Len(enq[n]) = 2 /\ queue[n] = <<enq[n][2]>>

\* C23: when the answer to a poll holds more than one key, the child marks
\* the status as failed and runs none of the operations: it has no action
\* to call back.
C23_NoneExecuted ==
    [][\A k \in Procs, r \in Responses :
          (Cardinality(DOMAIN r) > 1 /\ poll_answered(k, r))
          => /\ workers'[k].status = 1
             /\ workers'[k].action = "none" ]_vars

\* the keys of the requests the listener is said to handle
ExpectedKeys == {"register", "unregister", "ask_action", "callback"}

\* C24: a request whose body is a dict with none of the keys register,
\* unregister, ask_action and callback gets the empty response from a
\* listener that serves. (Such a request changes no Form, active name or
\* queue: C16.)
C24_OtherKeysIgnored ==
    \A t \in Malformed :
        ( /\ \E i \in Insts : Serving(i)
          /\ t.shape = "dict" /\ t.key \notin ExpectedKeys )
        => do_POST_result(t) = Answer(EmptyDict)

\* C25: run() on an object whose server is running and serving leaves it
\* running on the same port, with one thread in serve_forever on its
\* socket and not two.
C25_OneListener ==
    [][\A i \in Insts :
          (Live(i) /\ insts[i].running /\ Serving(i) /\ run(i))
          => /\ insts'[i].running
             /\ insts'[i].port = insts[i].port
             /\ insts'[i].server.threads = 1 ]_vars

\* what the FormManager holds of name n: whether it is known, whether it is
\* active, and its queue
Of(n) ==
    <<n \in Known, n \in Active,
      IF n \in DOMAIN queue THEN <<queue[n]>> ELSE << >> >>

\* some operation for name(d) runs on object i
OperationOn(i, d) ==
    \/ remove_form(i, d)
    \/ _register_form(i, name(d)) \/ _unregister_form(i, name(d))
    \/ check_queue(i, name(d)) \/ pop_queue(i, name(d))
    \/ \E a \in Actions : request_action(i, name(d), a)

\* C26: the operations of one name leave another name alone: an operation
\* for name(d) changes nothing the FormManager holds of a different name n,
\* and a register of n that the listener handles while the caller is in
\* remove_form(d) does what it does alone: n is active after it if it was
\* known or active, with its Form and queue as before.
C26_Isolated ==
    [][\A i \in Insts, d \in PairForms, n \in PairNames :
          n # name(d)
          => /\ OperationOn(i, d) => Of(n)' = Of(n)
             /\ _register_form_during_remove(i, n, d)
                => /\ (n \in Active)' <=> (n \in Active \/ n \in Known)
                   /\ (n \in Known)' <=> n \in Known
                   /\ Of(n)'[3] = Of(n)[3] ]_vars

\* C27: the action the callback of a child removes from the queue is the
\* action the child was handed and ran: whatever the caller does between
\* the poll and the callback, the head that the confirmed callback pops is
\* of the kind the child holds.
C27_PoppedWasExecuted ==
    [][\A k \in Procs :
          LET w == workers[k]
              n == w.name
          IN  ( /\ w.pc = "callback"
                /\ Listening(w.port) /\ manager # None /\ Pending(n)
                /\ callback(k) )
              => queue[n][1][1] = w.action ]_vars

\* C28: no enqueued action is run twice: of all the children launched for a
\* name, no two hold the same place of what was appended to its queue
\* entry, neither while they run it nor after one has exited without
\* popping it. (The entry is never discarded under Relaunch, so a place is
\* one element.)
C28_AtMostOnce ==
    \A j \in Procs, k \in Procs :
        (j # k /\ workers[j].name = workers[k].name /\ workers[j].elem # 0)
        => workers[j].elem # workers[k].elem

\* C29: a child has one recurring _ask event scheduled at most: none while
\* it runs an action and waits for the answer to its callback, and one
\* while it is in its event loop between two polls.
C29_OneTimer ==
    \A k \in Procs :
        /\ workers[k].timers <= 1
        /\ MidAction(workers[k]) => workers[k].timers = 0
        /\ workers[k].pc = "idle" => workers[k].timers = 1

\* C30: FormManager() called while the singleton exists leaves that object
\* as it was: its port, its running flag, the server it holds, the Forms,
\* the active names and the queues, so that the stop() that follows works
\* on the listener that was started.
C30_ConstructionKeeps ==
    [][\A i \in Insts :
          (Live(i) /\ manager = i /\ construct)
          => /\ insts'[i].port = insts[i].port
             /\ insts'[i].running = insts[i].running
             /\ insts'[i].server = insts[i].server
             /\ stopped(insts'[i]).server = stopped(insts[i]).server
             /\ UNCHANGED registry ]_vars

====
